---- MODULE Spec2Model ----
(***************************************************************************)
(* Model of cogniserve's agent router (src/src/cogniserve/utils/           *)
(* agent_router.py): the projection of runtime stream events to output     *)
(* records, the SSE stream generator of POST {prefix}/stream and the       *)
(* blocking POST {prefix}/run handler.                                     *)
(*                                                                         *)
(* Python values are represented by strings: a text by itself, a number by *)
(* its digits, None by Null, True by "true", an empty list by "[]", and    *)
(* any value json.dumps cannot encode by Obj.  An attribute an object does *)
(* not have is Missing, so hasattr/getattr are what the code calls.        *)
(***************************************************************************)
EXTENDS Naturals, Sequences, FiniteSets, TLC

\* ------------------------------------------------------------------ bounds
\* Longest runtime feed of one streaming request.
MaxEvents == 3
\* Events per feed when several requests are in flight.
MaxConcEvents == 2

\* ------------------------------------------------------------------ values
Null == "null"
Missing == "<missing>"
Obj == "<object>"
\* The value a projector "returns" when an exception propagates out of it.
Raised == [type |-> "<raise>"]
\* Python's None as the result of _format_stream_event.
None == [type |-> "<None>"]

\* A nested value of event.data (response, item): a dict, an object that is
\* not a mapping (no .get), None, or no attribute at all.
NestedMissing == [kind |-> "missing", id |-> Null, status |-> Null, type |-> Null]

hasattr(o, a) == IF a \in {"response", "item"} THEN o[a].kind # "missing" ELSE o[a] # Missing

\* Faulty variant: every default is None.
getattr_or_none(o, a, dflt) == IF o[a] = Missing THEN Null ELSE o[a]

getattr(o, a, dflt) == IF o[a] = Missing THEN dflt ELSE o[a]

\* base_event.update(fields): the fields given win.
update(base_event, fields) == fields @@ base_event

\* getattr(event.data, a, {}).get(key) if hasattr(event.data, a) else None.
\* .get exists on a dict only: on any other value this is an AttributeError.
nested_get(data, a, key) ==
    IF ~hasattr(data, a) THEN Null
    ELSE IF data[a].kind = "dict" THEN data[a][key]
    ELSE "<AttributeError>"

nested_get_raises(data, a) == hasattr(data, a) /\ data[a].kind # "dict"

\* ------------------------------------------------------------ projection
LifecycleTypes == {"response.created", "response.completed"}
ContentPartTypes == {"response.content_part.added", "response.content_part.done"}
OutputItemTypes == {"response.output_item.added", "response.output_item.done"}

raw_variant_fields(data) ==
    LET event_type == data.type IN
    IF event_type = "response.output_text.delta" THEN
        [delta |-> getattr(data, "delta", ""),
         content_index |-> getattr(data, "content_index", "0"),
         item_id |-> getattr(data, "item_id", Null),
         output_index |-> getattr(data, "output_index", "0")]
    ELSE IF event_type = "response.reasoning_summary_text.delta" THEN
        [delta |-> getattr(data, "delta", ""), reasoning |-> "true"]
    ELSE IF event_type = "response.refusal.delta" THEN
        [delta |-> getattr(data, "delta", ""), refusal |-> "true"]
    ELSE IF event_type = "response.function_call_arguments.delta" THEN
        [delta |-> getattr(data, "delta", ""), function_call |-> "true",
         call_id |-> getattr(data, "call_id", Null)]
    ELSE IF event_type \in LifecycleTypes THEN
        [response_id |-> nested_get(data, "response", "id"),
         status |-> nested_get(data, "response", "status")]
    ELSE IF event_type \in ContentPartTypes THEN
        [content_index |-> getattr(data, "content_index", "0"),
         item_id |-> getattr(data, "item_id", Null)]
    ELSE IF event_type \in OutputItemTypes THEN
        [output_index |-> getattr(data, "output_index", "0"),
         item_type |-> nested_get(data, "item", "type")]
    ELSE IF event_type = "response.output_text.done" THEN
        [text |-> getattr(data, "text", ""),
         content_index |-> getattr(data, "content_index", "0"),
         item_id |-> getattr(data, "item_id", Null)]
    ELSE <<>>

\* Faulty variant: a sub-kind the projector does not list is an error.
raw_variant_raises_unlisted(data) ==
    \/ data.type \in LifecycleTypes /\ nested_get_raises(data, "response")
    \/ data.type \in OutputItemTypes /\ nested_get_raises(data, "item")
    \/ raw_variant_fields(data) = <<>>

raw_variant_raises(data) ==
    \/ data.type \in LifecycleTypes /\ nested_get_raises(data, "response")
    \/ data.type \in OutputItemTypes /\ nested_get_raises(data, "item")

_format_raw_response_event(event) ==
    LET data == event.data
        base_event ==
            [type |-> "raw_response",
             event_type |-> IF hasattr(data, "type") THEN data.type ELSE "unknown",
             sequence_number |-> getattr(data, "sequence_number", Null)]
    IN  IF ~hasattr(data, "type") THEN base_event
        ELSE IF raw_variant_raises(data) THEN Raised
        ELSE update(base_event, raw_variant_fields(data))

\* getattr(None, a, None) is None too: an event whose item is None projects
\* as one whose item has no attribute at all.
_format_run_item_event(event) ==
    LET item == event.item
        base_event ==
            [type |-> "run_item",
             name |-> event.name,
             item_type |-> getattr(item, "type", Null)]
    IN  IF event.name = "message_output_created" THEN
            update(base_event,
                   [role |-> getattr(item, "role", Null),
                    status |-> getattr(item, "status", Null),
                    message_id |-> getattr(item, "id", Null)])
        ELSE IF event.name = "tool_called" THEN
            update(base_event,
                   [tool_name |-> getattr(item, "name", Null),
                    tool_arguments |-> getattr(item, "arguments", Null),
                    call_id |-> getattr(item, "id", Null)])
        ELSE IF event.name = "tool_output" THEN
            update(base_event,
                   [tool_name |-> getattr(item, "name", Null),
                    output |-> getattr(item, "output", Null),
                    call_id |-> getattr(item, "id", Null)])
        ELSE IF event.name = "handoff_requested" THEN
            update(base_event,
                   [target_agent |-> getattr(item, "target_agent_name", Null),
                    reason |-> getattr(item, "reason", Null)])
        ELSE IF event.name = "handoff_occured" THEN
            update(base_event,
                   [target_agent |-> getattr(item, "target_agent_name", Null),
                    previous_agent |-> getattr(item, "previous_agent_name", Null)])
        ELSE IF event.name = "reasoning_item_created" THEN
            update(base_event,
                   [reasoning_content |-> getattr(item, "content", Null)])
        ELSE IF event.name = "mcp_approval_requested" THEN
            update(base_event,
                   [tool_name |-> getattr(item, "tool_name", Null),
                    server_name |-> getattr(item, "server_name", Null)])
        ELSE IF event.name = "mcp_list_tools" THEN
            update(base_event,
                   [server_name |-> getattr(item, "server_name", Null),
                    tools |-> getattr(item, "tools", "[]")])
        ELSE base_event

\* len() of a list, as the text of the number.
NumText(n) == CASE n = 0 -> "0" [] n = 1 -> "1" [] n = 2 -> "2" [] OTHER -> "many"

\* str(): a text is itself, an object is its repr.
pystr(v) == IF v = Obj THEN "<OpenAIChatCompletionsModel object>" ELSE v

\* Faulty variant: an agent without instructions gets null.
updated_instructions_or_null(instructions) ==
    IF instructions.kind = "str" THEN instructions.text
    ELSE IF instructions.kind = "none" THEN Null
    ELSE "Dynamic instructions"

\* new_agent.instructions if isinstance(..., str) else "Dynamic instructions"
updated_instructions(instructions) ==
    IF instructions.kind = "str" THEN instructions.text ELSE "Dynamic instructions"

_format_agent_updated_event(event) ==
    LET new_agent == event.new_agent IN
    [type |-> "agent_updated",
     agent_name |-> new_agent.name,
     agent_instructions |-> updated_instructions(new_agent.instructions),
     model |-> IF new_agent.model \in {Null, ""} THEN Null ELSE pystr(new_agent.model),
     tools_count |-> NumText(Len(new_agent.tools)),
     handoffs_count |-> NumText(Len(new_agent.handoffs))]

\* Faulty variant: an event of another class is rejected.
unknown_event_rejected(event) == Raised

\* The fallback for an event of none of the three classes.
unknown_event(event) ==
    [type |-> "unknown_event",
     event_class |-> event.cls,
     data |-> IF event.truthy THEN event.repr ELSE Null]

\* try: the projector of the event's class; except Exception: return None.
_format_stream_event(event) ==
    LET formatted ==
            IF event.cat = "raw_response" THEN _format_raw_response_event(event)
            ELSE IF event.cat = "run_item" THEN _format_run_item_event(event)
            ELSE IF event.cat = "agent_updated" THEN _format_agent_updated_event(event)
            ELSE unknown_event(event)
    IN  IF formatted = Raised THEN None ELSE formatted

\* ------------------------------------------------------- runtime events
\* The runtime's events are read, never built, by the router: these are the
\* shapes the feed can deliver.
RawScalarAttrs ==
    {"sequence_number", "delta", "content_index", "item_id", "output_index",
     "call_id", "text"}

RawTypes ==
    {"response.output_text.delta", "response.reasoning_summary_text.delta",
     "response.refusal.delta", "response.function_call_arguments.delta",
     "response.created", "response.completed",
     "response.content_part.added", "response.content_part.done",
     "response.output_item.added", "response.output_item.done",
     "response.output_text.done", "response.in_progress"}

SampleValue(a) ==
    CASE a = "sequence_number" -> "7"
      [] a = "delta" -> "Hel"
      [] a = "content_index" -> "1"
      [] a = "item_id" -> "msg_1"
      [] a = "output_index" -> "2"
      [] a = "call_id" -> "call_1"
      [] a = "text" -> "Hello!"
      [] a = "type" -> "message"
      [] a = "role" -> "assistant"
      [] a = "status" -> "completed"
      [] a = "id" -> "id_1"
      [] a = "name" -> "search"
      [] a = "arguments" -> "{\"q\":\"x\"}"
      [] a = "output" -> "42"
      [] a = "target_agent_name" -> "coder"
      [] a = "reason" -> "needs code"
      [] a = "previous_agent_name" -> "triage"
      [] a = "content" -> "thinking"
      [] a = "tool_name" -> "fetch"
      [] a = "server_name" -> "mcp_1"
      [] a = "tools" -> "[\"fetch\"]"

\* event.data of a raw-response event: type t (or no type attribute), the
\* scalar attributes of S present, and the nested response and item.
RawData(t, S, response, item) ==
    [a \in RawScalarAttrs |-> IF a \in S THEN SampleValue(a) ELSE Missing]
        @@ [type |-> t, response |-> response, item |-> item]

RawEvent(data) == [cat |-> "raw_response", data |-> data]

\* A text delta of the model's answer, with all its attributes.
TextDeltaEvent(delta) ==
    RawEvent([RawData("response.output_text.delta",
                      {"sequence_number", "delta", "content_index", "item_id", "output_index"},
                      NestedMissing, NestedMissing) EXCEPT !.delta = delta])

DictResponse == [kind |-> "dict", id |-> "resp_1", status |-> "completed", type |-> Null]
\* A dict without the keys read: .get gives None.
EmptyDict == [kind |-> "dict", id |-> Null, status |-> Null, type |-> Null]
\* The runtime's typed response or item object: attributes, no .get.
ObjectResponse == [kind |-> "object", id |-> "resp_1", status |-> "completed", type |-> "message"]
NoneNested == [kind |-> "none", id |-> Null, status |-> Null, type |-> Null]
DictItem == [kind |-> "dict", id |-> Null, status |-> Null, type |-> "message"]

ItemAttrs ==
    {"type", "role", "status", "id", "name", "arguments", "output",
     "target_agent_name", "reason", "previous_agent_name", "content",
     "tool_name", "server_name", "tools"}

RunItemNames ==
    {"message_output_created", "tool_called", "tool_output", "handoff_requested",
     "handoff_occured", "reasoning_item_created", "mcp_approval_requested",
     "mcp_list_tools", "tool_search_called"}

\* event.item with the attributes of S present; those of O hold a value
\* json.dumps cannot encode (an object, bytes, a set).
Item(S, O) ==
    [a \in ItemAttrs |->
        IF a \in O THEN Obj ELSE IF a \in S THEN SampleValue(a) ELSE Missing]

RunItemEvent(name, item) == [cat |-> "run_item", name |-> name, item |-> item]

StaticInstructions(text) == [kind |-> "str", text |-> text]
DynamicInstructions == [kind |-> "callable", text |-> Null]
NoInstructions == [kind |-> "none", text |-> Null]

AgentEvent(instructions, model, tools) ==
    [cat |-> "agent_updated",
     new_agent |-> [name |-> "coder", instructions |-> instructions,
                    model |-> model, tools |-> tools, handoffs |-> <<>>]]

\* An event of none of the three classes; truthy is bool(event).
OtherEvent(cls, truthy) ==
    [cat |-> "other", cls |-> cls, truthy |-> truthy, repr |-> "<" \o cls \o ">"]

\* The optional attributes each variant projector reads, beside the base
\* ones: what may be present or not on a runtime event.
RawReads(t) ==
    CASE t = "response.output_text.delta" -> {"delta", "content_index", "item_id", "output_index"}
      [] t = "response.reasoning_summary_text.delta" -> {"delta"}
      [] t = "response.refusal.delta" -> {"delta"}
      [] t = "response.function_call_arguments.delta" -> {"delta", "call_id"}
      [] t \in ContentPartTypes -> {"content_index", "item_id"}
      [] t \in OutputItemTypes -> {"output_index"}
      [] t = "response.output_text.done" -> {"text", "content_index", "item_id"}
      [] OTHER -> {}

RunItemReads(name) ==
    CASE name = "message_output_created" -> {"role", "status", "id"}
      [] name = "tool_called" -> {"name", "arguments", "id"}
      [] name = "tool_output" -> {"name", "output", "id"}
      [] name = "handoff_requested" -> {"target_agent_name", "reason"}
      [] name = "handoff_occured" -> {"target_agent_name", "previous_agent_name"}
      [] name = "reasoning_item_created" -> {"content"}
      [] name = "mcp_approval_requested" -> {"tool_name", "server_name"}
      [] name = "mcp_list_tools" -> {"server_name", "tools"}
      [] OTHER -> {}

NestedValues(t) ==
    [response |-> IF t \in LifecycleTypes
                  THEN {NestedMissing, DictResponse, EmptyDict, ObjectResponse, NoneNested}
                  ELSE {NestedMissing},
     item |-> IF t \in OutputItemTypes
              THEN {NestedMissing, DictItem, EmptyDict, ObjectResponse, NoneNested}
              ELSE {NestedMissing}]

\* Every raw-response event: each sub-kind (and no type attribute at all)
\* with each subset of the attributes its projector reads.
RawEvents ==
    { RawEvent(RawData(t, S, r, i)) :
        <<t, S, r, i>> \in
            UNION { {t} \X (SUBSET (RawReads(t) \cup {"sequence_number"}))
                        \X NestedValues(t).response \X NestedValues(t).item
                    : t \in RawTypes \cup {Missing} } }

RunItemEvents ==
    { RunItemEvent(n, Item(S, {})) :
        <<n, S>> \in UNION { {n} \X (SUBSET (RunItemReads(n) \cup {"type"}))
                             : n \in RunItemNames } }

AgentEvents ==
    { AgentEvent(i, m, t) :
        i \in {StaticInstructions("You are helpful"), DynamicInstructions, NoInstructions},
        m \in {"gpt-4.1-mini", Null, "", Obj},
        t \in {<<>>, <<"search", "fetch">>} }

OtherEvents == { OtherEvent("dict", FALSE), OtherEvent("KeepAlive", TRUE) }

\* A text of 201 characters: longer than any display budget of 100 to 200.
Text50 == "xxxxxxxxxxxxxxxxxxxxxxxxxxxxxxxxxxxxxxxxxxxxxxxxxx"
LongText == Text50 \o Text50 \o Text50 \o Text50 \o "x"

\* event.item with the attributes of S present, those of T holding LongText.
LongTextItem(S, T) ==
    [a \in ItemAttrs |->
        IF a \in T THEN LongText ELSE IF a \in S THEN SampleValue(a) ELSE Missing]

LongTextEvents ==
    { RunItemEvent("tool_called", LongTextItem({"type", "name", "id"}, {"arguments"})),
      RunItemEvent("tool_output", LongTextItem({"type", "name", "id"}, {"output"})),
      RunItemEvent("reasoning_item_created", LongTextItem({"type"}, {"content"})) }

ProjEvents ==
    RawEvents \cup RunItemEvents \cup AgentEvents \cup OtherEvents \cup LongTextEvents

\* ------------------------------------------------------- runtime results
\* What the router reads of the runtime's result object (Runner.run's
\* result, or the streaming handle once its feed has ended).
NullUsage ==
    [requests |-> Null, input_tokens |-> Null, output_tokens |-> Null, total_tokens |-> Null]
SomeUsage ==
    [requests |-> "1", input_tokens |-> "10", output_tokens |-> "5", total_tokens |-> "15"]

\* context_wrapper: no such attribute, None, or a wrapper whose usage is
\* None (NullUsage) or counters.
CwMissing == [kind |-> "missing", usage |-> NullUsage]
CwNone == [kind |-> "none", usage |-> NullUsage]
CwNoUsage == [kind |-> "wrapper", usage |-> NullUsage]
CwUsage == [kind |-> "wrapper", usage |-> SomeUsage]

\* raw_responses: no such attribute, or the list of the responses' ids.
RrMissing == [kind |-> "missing", ids |-> <<>>]
RrList(ids) == [kind |-> "list", ids |-> ids]

Result(final_output, has_usage_attr, context_wrapper, raw_responses) ==
    [final_output |-> final_output, current_turn |-> "1",
     has_usage_attr |-> has_usage_attr,
     context_wrapper |-> context_wrapper, raw_responses |-> raw_responses]

NoResult == Result(Missing, FALSE, CwMissing, RrMissing)

Results ==
    { Result("Hello!", FALSE, CwUsage, RrList(<<"resp_0", "resp_1">>)),
      Result("Hello!", TRUE, CwUsage, RrList(<<"resp_1">>)),
      Result(Obj, FALSE, CwUsage, RrList(<<"resp_1">>)),
      Result(Null, TRUE, CwNoUsage, RrList(<<>>)),
      Result("Hello!", TRUE, CwNone, RrMissing),
      Result("Hello!", TRUE, CwUsage, RrMissing),
      Result("Hello!", TRUE, CwMissing, RrList(<<Null>>)) }

\* str(e) of the exceptions the runtime raises; an exception built without
\* arguments has the empty message.
ExcMsgs == {"", "Max turns (10) exceeded"}

\* result.context_wrapper.usage raises AttributeError when context_wrapper
\* is None (hasattr is true of an attribute that holds None).
usage_read_raises(res) == res.context_wrapper.kind = "none"

\* result.raw_responses raises AttributeError when there is no such attribute.
response_id_read_raises(res) == res.raw_responses.kind = "missing"

\* try: counters of result.context_wrapper.usage, if any; except: None.
_extract_usage_info(res) ==
    IF usage_read_raises(res) THEN NullUsage
    ELSE IF res.context_wrapper.kind = "wrapper" /\ res.context_wrapper.usage # NullUsage
    THEN res.context_wrapper.usage
    ELSE NullUsage

\* try: the last response's id, if any and not falsy; except: None.
_extract_response_id(res) ==
    LET ids == res.raw_responses.ids IN
    IF response_id_read_raises(res) THEN Null
    ELSE IF Len(ids) > 0 /\ ids[Len(ids)] \notin {Null, ""}
    THEN ids[Len(ids)]
    ELSE Null

\* Faulty variant: the helpers let their exceptions out.
extraction_propagates_uncaught(res) ==
    usage_read_raises(res) \/ response_id_read_raises(res)

\* Whether an exception of the two helpers reaches their caller: never, each
\* has its own except Exception that logs and falls through to return None.
extraction_propagates(res) == FALSE

AttributeErrorMsg == "'NoneType' object has no attribute 'usage'"

\* ------------------------------------------------------------- encoding
\* json.dumps raises TypeError on a value it cannot encode.  The usage
\* counters are numbers or None.
json_dumps_raises(rec) == \E f \in DOMAIN rec \ {"usage"} : rec[f] = Obj

TypeErrorMsg == "Object of type object is not JSON serializable"

\* Faulty variant: the completion event does not read the handle.
completion_event_blank(res) ==
    [type |-> "stream_complete", final_output |-> Null, current_turn |-> Null,
     usage |-> NullUsage]

completion_event(res) ==
    [type |-> "stream_complete",
     final_output |-> res.final_output,
     current_turn |-> res.current_turn,
     usage |-> IF res.has_usage_attr THEN _extract_usage_info(res) ELSE NullUsage]

\* Faulty variant: the exception's message is replaced by a fixed text.
error_event_generic(msg) ==
    [type |-> "error", message |-> "Internal server error", timestamp |-> "<created>"]

error_event(msg) == [type |-> "error", message |-> msg, timestamp |-> "<created>"]

\* if formatted_event: (None and the empty dict are falsy)
truthy(formatted_event) == formatted_event # None

\* ---------------------------------------------------------------- state
\* The events a streaming request's feed delivers in this model.
StreamEvents ==
    { TextDeltaEvent("Hel"), TextDeltaEvent("lo"), TextDeltaEvent("!"),
      RawEvent(RawData("response.output_text.delta", {}, NestedMissing, NestedMissing)),
      RawEvent(RawData("response.created", {"sequence_number"}, DictResponse, NestedMissing)),
      RawEvent(RawData("response.completed", {"sequence_number"}, ObjectResponse, NestedMissing)),
      RawEvent(RawData("response.in_progress", {"sequence_number"}, NestedMissing, NestedMissing)),
      RunItemEvent("tool_called", Item({"type", "name", "arguments", "id"}, {})),
      RunItemEvent("tool_output", Item({"type", "name", "id"}, {"output"})),
      AgentEvent(StaticInstructions("You are helpful"), "gpt-4.1-mini", <<"search", "fetch">>),
      AgentEvent(DynamicInstructions, Null, <<>>),
      OtherEvent("KeepAlive", TRUE),
      OtherEvent("dict", FALSE) }

NoResponse ==
    [final_output |-> Missing, success |-> Missing, error |-> Missing,
     usage |-> NullUsage, response_id |-> Missing]

VARIABLES
    pc,           \* where the streaming request stands (see the actions)
    httpStatus,   \* status line sent for the request, 0 before
    frames,       \* the records of the SSE frames generate_stream has yielded
    origin,       \* per frame, the feed position of its event (0: terminal)
    feed,         \* the events pulled from stream_events() so far
    outcome,      \* what ended the event loop
    error,        \* str(e) of the exception generate_stream caught
    result,       \* the runtime result read by the request
    runResponse,  \* AgentResponse returned by run_agent
    sent,         \* how many of the frames the response has written out
    runTask,      \* the run Runner.run_streamed started: none, running, finished, cancelled
    agent,        \* the Agent the router was created for
    route,        \* prefix and agent_name the router was created with
    infoResponse, \* what get_agent_info returned
    reqs,         \* the requests in flight on the router, each with its own state
    pEvent,       \* projection alone: the event
    pOut          \* projection alone: _format_stream_event's result

vars ==
    <<pc, httpStatus, frames, origin, feed, outcome, error, result, runResponse,
      sent, runTask, agent, route, infoResponse, reqs, pEvent, pOut>>

otherVars == <<agent, route, infoResponse, reqs>>

\* Everything but the requests in flight.
soloVars ==
    <<pc, httpStatus, frames, origin, feed, outcome, error, result, runResponse,
      sent, runTask, agent, route, infoResponse, pEvent, pOut>>

streamVars == <<pc, httpStatus, frames, origin, feed, outcome, error, result>>

NotProjected == [type |-> "<not projected>"]

\* ------------------------------------------------------ the bound agent
\* agent.model is a model name, None, or a Model object.
Agent(name, instructions, model, tools, handoffs) ==
    [name |-> name, instructions |-> instructions, model |-> model,
     tools |-> tools, handoffs |-> handoffs]

ChatAgent ==
    Agent("chat_agent", StaticInstructions("An agent that can chat with the user"),
          "gpt-4.1-mini", <<>>, <<>>)

Route(prefix, agent_name) == [prefix |-> prefix, agent_name |-> agent_name]

Agents ==
    { Agent("helper", i, m, t, h) :
        i \in {StaticInstructions("You are helpful"), DynamicInstructions, NoInstructions},
        m \in {"gpt-4.1-mini", Null, "", Obj},
        t \in {<<>>, <<"search">>, <<"search", "fetch">>},
        h \in {<<>>, <<"coder">>, <<"coder", "research">>} }

Routes == { Route("/assistant", "Assistant"), Route("/coder", "Coder") }

NoInfo == [status |-> "none"]

\* Faulty variant: the literal stands for everything that is not a text.
info_instructions_literal(instructions) ==
    IF instructions.kind = "str" THEN instructions.text
    ELSE "Dynamic instructions (function-based)"

info_instructions(instructions) ==
    IF instructions.kind = "str" THEN instructions.text
    ELSE IF instructions.kind = "none" THEN Null
    ELSE "Dynamic instructions (function-based)"

info_model(model) ==
    IF model \in {Null, ""} THEN Null
    ELSE pystr(model)

AgentInfo(a, r) ==
    [status |-> "200",
     name |-> r.agent_name,
     agent_name |-> a.name,
     instructions |-> info_instructions(a.instructions),
     model |-> info_model(a.model),
     tools_count |-> NumText(Len(a.tools)),
     handoffs_count |-> NumText(Len(a.handoffs)),
     endpoints |-> [run |-> r.prefix \o "/run",
                    stream |-> r.prefix \o "/stream",
                    info |-> r.prefix \o "/info"]]

\* ------------------------------------------------- requests in flight
\* Each call of a handler has its own locals and, for a stream, its own
\* generator closure; the router's closure holds agent, prefix, agent_name.
Requests == {1, 2}

NoEnding == [kind |-> "none", res |-> NoResult, msg |-> Null]
Ended(kind, res) == [kind |-> kind, res |-> res, msg |-> Null]
Failed(kind, msg) == [kind |-> kind, res |-> NoResult, msg |-> msg]

\* A request not yet received.  ending is what the runtime did for it.
NewRequest ==
    [pc |-> "idle", feed |-> <<>>, frames |-> <<>>, ending |-> NoEnding,
     response |-> NoResponse, info |-> NoInfo]

NoRequests == [r \in Requests |-> NewRequest]

Init ==
    /\ pc = "idle"
    /\ httpStatus = 0
    /\ frames = <<>>
    /\ origin = <<>>
    /\ feed = <<>>
    /\ outcome = "none"
    /\ error = Null
    /\ result = NoResult
    /\ runResponse = NoResponse
    /\ sent = 0
    /\ runTask = "none"
    /\ agent = ChatAgent
    /\ route = Route("/chat", "Chat Agent")
    /\ infoResponse = NoInfo
    /\ reqs = NoRequests
    /\ pEvent = OtherEvent("dict", FALSE)
    /\ pOut = NotProjected

\* --------------------------------------------------------------- stream
\* Faulty variant: the frame goes out ahead of those already yielded.
yield_first(fs, record) == <<record>> \o fs

\* yield f"data: {json.dumps(record)}\n\n": the frame follows those yielded.
yield(fs, record) == Append(fs, record)

\* Each record of recs yielded in turn.
RECURSIVE yield_each(_, _)
yield_each(fs, recs) ==
    IF recs = <<>> THEN fs ELSE yield_each(yield(fs, Head(recs)), Tail(recs))

\* Faulty variant: the record of an event is yielded twice.
event_frames_twice(formatted_event) ==
    IF formatted_event # None THEN <<formatted_event, formatted_event>> ELSE <<>>

\* The frames one event adds: if formatted_event: yield ...
event_frames(formatted_event) ==
    IF truthy(formatted_event) THEN <<formatted_event>> ELSE <<>>

\* Faulty variant: the exception is logged and no frame is yielded.
except_frames_silent(msg) == <<>>

\* except Exception as e: one error frame, then the generator returns.
except_frames(msg) == <<error_event(msg)>>

\* The generator reaches `except Exception` with str(e) = msg.
Except(kind, msg) ==
    /\ outcome' = kind
    /\ error' = msg
    /\ frames' = frames \o except_frames(msg)
    /\ origin' = origin \o [i \in 1..Len(except_frames(msg)) |-> 0]
    /\ pc' = IF except_frames(msg) = <<>> THEN "done" ELSE "yield_error"

\* Faulty variant: the handler starts the run itself, before there is a response,
\* so that its failure becomes the request's failure.
stream_agent_eager ==
    /\ pc = "idle"
    /\ \/ /\ pc' = "response"
          /\ httpStatus' = 200
          /\ UNCHANGED <<outcome, error>>
       \/ \E msg \in ExcMsgs :
            /\ pc' = "done"
            /\ httpStatus' = 500
            /\ outcome' = "run_streamed_raised"
            /\ error' = msg
    /\ UNCHANGED <<frames, origin, feed, result, runResponse, sent, runTask, pEvent, pOut, otherVars>>

\* POST {prefix}/stream: the handler returns the StreamingResponse, whose
\* status line and headers go out before the body generator is first run.
stream_agent ==
    /\ pc = "idle"
    /\ pc' = "response"
    /\ httpStatus' = 200
    /\ UNCHANGED <<frames, origin, feed, outcome, error, result, runResponse,
                   sent, runTask, pEvent, pOut, otherVars>>

\* generate_stream up to its first suspension: Runner.run_streamed returns
\* the handle and the loop awaits the first event, or it raises.
generate_stream_start ==
    /\ pc = "response"
    /\ \/ /\ pc' = "await_event"
          /\ runTask' = "running"
          /\ UNCHANGED <<frames, origin, outcome, error>>
       \/ /\ \E msg \in ExcMsgs : Except("run_streamed_raised", msg)
          /\ UNCHANGED runTask
    /\ UNCHANGED <<httpStatus, feed, result, runResponse, sent, pEvent, pOut, otherVars>>

\* Faulty variant: the generator goes on to the next event with the frame
\* of this one still to be written.
after_event_buffered(new) == "await_event"

\* After an event: the loop asks for the next one at once when the event has
\* no frame; otherwise the generator is suspended at the yield until the
\* response has written the frame.
after_event(new) == IF new = <<>> THEN "await_event" ELSE "yield_event"

\* The feed delivers an event: it is formatted and, when there is a record,
\* encoded and yielded; json.dumps raising is caught by the generator's except.
stream_event(event) ==
    /\ pc = "await_event"
    /\ Len(feed) < MaxEvents
    /\ feed' = Append(feed, event)
    /\ LET formatted_event == _format_stream_event(event)
           new == event_frames(formatted_event)
       IN  IF new # <<>> /\ json_dumps_raises(formatted_event)
           THEN Except("json_dumps_raised", TypeErrorMsg)
           ELSE /\ frames' = yield_each(frames, new)
                /\ origin' = origin \o [i \in 1..Len(new) |-> Len(feed) + 1]
                /\ pc' = after_event(new)
                /\ UNCHANGED <<outcome, error>>
    /\ UNCHANGED <<httpStatus, result, runResponse, sent, runTask, pEvent, pOut, otherVars>>

\* The feed ends (StopAsyncIteration): the completion event is built from the
\* handle, encoded and yielded.
feed_ends(res) ==
    /\ pc = "await_event"
    /\ result' = res
    /\ IF json_dumps_raises(completion_event(res))
       THEN Except("json_dumps_raised", TypeErrorMsg)
       ELSE /\ frames' = yield(frames, completion_event(res))
            /\ origin' = Append(origin, 0)
            /\ outcome' = "feed_ended"
            /\ pc' = "yield_complete"
            /\ UNCHANGED error
    /\ runTask' = "finished"
    /\ UNCHANGED <<httpStatus, feed, runResponse, sent, pEvent, pOut, otherVars>>

\* The feed raises in place of its next event.
feed_raises(msg) ==
    /\ pc = "await_event"
    /\ Except("feed_raised", msg)
    /\ runTask' = "finished"
    /\ UNCHANGED <<httpStatus, feed, result, runResponse, sent, pEvent, pOut, otherVars>>

\* The response has written the frame and asks the generator for the next:
\* the loop awaits the next event, or the generator returns.
resume ==
    /\ pc \in {"yield_event", "yield_complete", "yield_error"}
    /\ pc' = IF pc = "yield_event" THEN "await_event" ELSE "done"
    /\ sent' = Len(frames)
    /\ UNCHANGED <<httpStatus, frames, origin, feed, outcome, error, result,
                   runResponse, runTask, pEvent, pOut, otherVars>>

\* The client closes the connection: the framework cancels the response and
\* the generator is closed where it stands (CancelledError, GeneratorExit:
\* neither is an Exception, so the except clause does not run).  The router
\* has no finally clause, no disconnect test and no call that cancels the
\* run it started: whether a run in progress stops is left to the runtime
\* library's own clean-up, which this code neither requests nor awaits.
disconnect ==
    /\ pc \in {"response", "await_event", "yield_event", "yield_complete", "yield_error"}
    /\ pc' = "closed"
    /\ runTask' \in (IF runTask = "running" THEN {"running", "cancelled"} ELSE {runTask})
    /\ UNCHANGED <<httpStatus, frames, origin, feed, outcome, error, result,
                   runResponse, sent, pEvent, pOut, otherVars>>

\* ------------------------------------------------------------------ run
\* Faulty variant: the failure is reported without its text.
failure_response_no_text(msg) ==
    [final_output |-> Null, success |-> "false", error |-> Null,
     usage |-> NullUsage, response_id |-> Null]

\* AgentResponse(final_output=None, success=False, error=str(e))
failure_response(msg) ==
    [final_output |-> Null, success |-> "false", error |-> msg,
     usage |-> NullUsage, response_id |-> Null]

success_response(res) ==
    [final_output |-> res.final_output, success |-> "true", error |-> Null,
     usage |-> _extract_usage_info(res),
     response_id |-> _extract_response_id(res)]

\* POST {prefix}/run: Runner.run returns a result or raises an Exception;
\* either way the handler returns an AgentResponse.
run_agent ==
    /\ pc = "idle"
    /\ pc' = "run_done"
    /\ \/ \E res \in Results :
            \* the framework then serialises the response; whether it can when
            \* final_output is not encodable is the framework's affair
            /\ httpStatus' \in IF res.final_output = Obj THEN {200, 500} ELSE {200}
            /\ result' = res
            \* an exception out of the extraction would be caught at line 104
            /\ IF extraction_propagates(res)
               THEN /\ error' = AttributeErrorMsg
                    /\ outcome' = "run_raised"
                    /\ runResponse' = failure_response(AttributeErrorMsg)
               ELSE /\ error' = Null
                    /\ outcome' = "run_returned"
                    /\ runResponse' = success_response(res)
       \/ \E msg \in ExcMsgs :
            /\ httpStatus' = 200
            /\ result' = NoResult
            /\ error' = msg
            /\ outcome' = "run_raised"
            /\ runResponse' = failure_response(msg)
    /\ UNCHANGED <<frames, origin, feed, sent, runTask, pEvent, pOut, otherVars>>

\* ------------------------------------------------------------------ info
\* GET {prefix}/info.  Nothing read inside the try can raise for an Agent
\* whose tools and handoffs are lists, so the except clause never runs.
get_agent_info ==
    /\ pc = "idle"
    /\ pc' = "info_done"
    /\ infoResponse' = AgentInfo(agent, route)
    /\ UNCHANGED <<httpStatus, frames, origin, feed, outcome, error, result,
                   runResponse, sent, runTask, agent, route, reqs, pEvent, pOut>>

Next ==
    \/ stream_agent
    \/ generate_stream_start
    \/ \E event \in StreamEvents : stream_event(event)
    \/ \E res \in Results : feed_ends(res)
    \/ \E msg \in ExcMsgs : feed_raises(msg)
    \/ resume
    \/ disconnect
    \/ run_agent
    \/ get_agent_info

Spec == Init /\ [][Next]_vars

\* ------------------------------------------------------ several requests
ConcEvents ==
    { TextDeltaEvent("Hel"),
      RunItemEvent("tool_output", Item({"type", "name", "id"}, {"output"})),
      OtherEvent("dict", FALSE) }

ConcResults ==
    { Result("Hello!", TRUE, CwUsage, RrList(<<"resp_1">>)),
      Result(Obj, FALSE, CwUsage, RrList(<<"resp_1">>)) }

\* Faulty variant: the frames go to one buffer all the requests read.
deliver_shared(rs, r, recs) ==
    [q \in DOMAIN rs |-> [rs[q] EXCEPT !.frames = yield_each(@, recs)]]

\* The generator of request r yields recs: they go to r's own response.
deliver(rs, r, recs) == [rs EXCEPT ![r].frames = yield_each(@, recs)]

\* POST {prefix}/stream for request r, up to the first await of the feed.
\* (The suspension at a yield changes nothing of the request and is not
\* kept apart from the step that yields.)
c_stream_agent(r) ==
    /\ reqs[r].pc = "idle"
    /\ \/ reqs' = [reqs EXCEPT ![r].pc = "await_event"]
       \/ \E msg \in ExcMsgs :
            reqs' = [deliver(reqs, r, except_frames(msg)) EXCEPT
                        ![r].pc = "done",
                        ![r].ending = Failed("run_streamed_raised", msg)]
    /\ UNCHANGED soloVars

c_stream_event(r, event) ==
    /\ reqs[r].pc = "await_event"
    /\ Len(reqs[r].feed) < MaxConcEvents
    /\ LET formatted_event == _format_stream_event(event)
           new == event_frames(formatted_event)
       IN  IF new # <<>> /\ json_dumps_raises(formatted_event)
           THEN reqs' = [deliver(reqs, r, except_frames(TypeErrorMsg)) EXCEPT
                            ![r].feed = Append(@, event),
                            ![r].pc = "done"]
           ELSE reqs' = [deliver(reqs, r, new) EXCEPT ![r].feed = Append(@, event)]
    /\ UNCHANGED soloVars

c_feed_ends(r, res) ==
    /\ reqs[r].pc = "await_event"
    /\ reqs' = [deliver(reqs, r,
                        IF json_dumps_raises(completion_event(res))
                        THEN except_frames(TypeErrorMsg)
                        ELSE <<completion_event(res)>>)
                EXCEPT ![r].pc = "done", ![r].ending = Ended("feed_ended", res)]
    /\ UNCHANGED soloVars

c_feed_raises(r, msg) ==
    /\ reqs[r].pc = "await_event"
    /\ reqs' = [deliver(reqs, r, except_frames(msg)) EXCEPT
                    ![r].pc = "done", ![r].ending = Failed("feed_raised", msg)]
    /\ UNCHANGED soloVars

c_disconnect(r) ==
    /\ reqs[r].pc = "await_event"
    /\ reqs' = [reqs EXCEPT ![r].pc = "closed"]
    /\ UNCHANGED soloVars

\* POST {prefix}/run for request r.
c_run_agent(r) ==
    /\ reqs[r].pc = "idle"
    /\ \/ \E res \in ConcResults :
            reqs' = [reqs EXCEPT ![r].pc = "run_done",
                                 ![r].ending = Ended("run_returned", res),
                                 ![r].response = success_response(res)]
       \/ \E msg \in ExcMsgs :
            reqs' = [reqs EXCEPT ![r].pc = "run_done",
                                 ![r].ending = Failed("run_raised", msg),
                                 ![r].response = failure_response(msg)]
    /\ UNCHANGED soloVars

\* GET {prefix}/info for request r.
c_get_agent_info(r) ==
    /\ reqs[r].pc = "idle"
    /\ reqs' = [reqs EXCEPT ![r].pc = "info_done", ![r].info = AgentInfo(agent, route)]
    /\ UNCHANGED soloVars

ConcNext ==
    \E r \in Requests :
        \/ c_stream_agent(r)
        \/ \E event \in ConcEvents : c_stream_event(r, event)
        \/ \E res \in ConcResults : c_feed_ends(r, res)
        \/ \E msg \in ExcMsgs : c_feed_raises(r, msg)
        \/ c_disconnect(r)
        \/ c_run_agent(r)
        \/ c_get_agent_info(r)

ConcSpec == Init /\ [][ConcNext]_vars

\* ------------------------------------------------------------ info alone
\* One GET {prefix}/info on a router created for any of the agents.
InfoInit ==
    /\ pc = "idle"
    /\ httpStatus = 0
    /\ frames = <<>>
    /\ origin = <<>>
    /\ feed = <<>>
    /\ outcome = "none"
    /\ error = Null
    /\ result = NoResult
    /\ runResponse = NoResponse
    /\ sent = 0
    /\ runTask = "none"
    /\ agent \in Agents
    /\ route \in Routes
    /\ infoResponse = NoInfo
    /\ reqs = NoRequests
    /\ pEvent = OtherEvent("dict", FALSE)
    /\ pOut = NotProjected

InfoNext == get_agent_info

InfoSpec == InfoInit /\ [][InfoNext]_vars

\* ----------------------------------------------------- projection alone
ProjInit ==
    /\ pc = "idle"
    /\ httpStatus = 0
    /\ frames = <<>>
    /\ origin = <<>>
    /\ feed = <<>>
    /\ outcome = "none"
    /\ error = Null
    /\ result = NoResult
    /\ runResponse = NoResponse
    /\ sent = 0
    /\ runTask = "none"
    /\ agent = ChatAgent
    /\ route = Route("/chat", "Chat Agent")
    /\ infoResponse = NoInfo
    /\ reqs = NoRequests
    /\ pEvent \in ProjEvents
    /\ pOut = NotProjected

project ==
    /\ pOut = NotProjected
    /\ pOut' = _format_stream_event(pEvent)
    /\ UNCHANGED <<pc, httpStatus, frames, origin, feed, outcome, error, result,
                   runResponse, sent, runTask, pEvent, otherVars>>

ProjNext == project

ProjSpec == ProjInit /\ [][ProjNext]_vars

\* ================================================================ claims
Terminal(record) == record.type \in {"stream_complete", "error"}

TerminalAt == { i \in 1..Len(frames) : Terminal(frames[i]) }

\* An event whose record generate_stream yields: formatted and encodable.
Deliverable(event) ==
    /\ _format_stream_event(event) # None
    /\ ~json_dumps_raises(_format_stream_event(event))

FramesOf(k) == { i \in 1..Len(frames) : origin[i] = k }

\* C1: however the feed goes (empty, ending, raising), the frames hold at
\* most one terminal frame (stream_complete or error), nothing follows it,
\* and once the generator has returned there is exactly one.
C1_OneTerminalFrameLast ==
    /\ Cardinality(TerminalAt) <= 1
    /\ TerminalAt \subseteq {Len(frames)}
    /\ pc \in {"yield_complete", "yield_error", "done"} => TerminalAt = {Len(frames)}
    /\ pc \in {"response", "await_event", "yield_event"} => TerminalAt = {}

C1_Witness ==
    /\ pc = "done"
    /\ Len(feed) = 2
    /\ Len(frames) = 3
    /\ frames[3].type = "error"

\* C2: the intermediate frames are the records of the events in feed order:
\* each is the record of the event at its origin, origins strictly increase
\* along the frames, and no deliverable event pulled is held back.
C2_FramesInFeedOrder ==
    /\ \A i \in 1..Len(frames) :
          ~Terminal(frames[i]) =>
              /\ origin[i] \in 1..Len(feed)
              /\ frames[i] = _format_stream_event(feed[origin[i]])
              /\ \A j \in 1..Len(frames) :
                    (i < j /\ ~Terminal(frames[j])) => origin[i] < origin[j]
    /\ \A k \in 1..Len(feed) : Deliverable(feed[k]) => FramesOf(k) # {}

C2_Witness ==
    /\ Len(frames) >= 3
    /\ origin[1] = 1 /\ origin[2] = 3
    /\ frames[1].type = "run_item" /\ frames[2].type = "raw_response"

\* C3: no amplification: an event pulled from the feed has at most one
\* frame, so the intermediate frames never outnumber the events pulled.
C3_NoAmplification ==
    /\ \A k \in 1..Len(feed) : Cardinality(FramesOf(k)) <= 1
    /\ Cardinality({ i \in 1..Len(frames) : ~Terminal(frames[i]) }) <= Len(feed)

C3_Witness ==
    /\ Len(feed) = 3
    /\ Cardinality({ i \in 1..Len(frames) : ~Terminal(frames[i]) }) = 3

\* C4: when the feed raises after k events, the frames are those of the k
\* events (one per event that has a record), then one error frame with the
\* exception's message; there is no stream_complete frame and the generator
\* is at its last yield or has returned.
C4_FeedRaiseEndsWithErrorFrame ==
    outcome = "feed_raised" =>
        LET n == Len(frames) IN
        /\ n >= 1
        /\ frames[n].type = "error"
        /\ frames[n].message = error
        /\ \A i \in 1..(n - 1) :
              /\ origin[i] \in 1..Len(feed)
              /\ frames[i] = _format_stream_event(feed[origin[i]])
        /\ \A k \in 1..Len(feed) :
              Cardinality(FramesOf(k)) = IF _format_stream_event(feed[k]) = None THEN 0 ELSE 1
        /\ \A i \in 1..n : frames[i].type # "stream_complete"
        /\ pc \in {"yield_error", "done", "closed"}

C4_Witness ==
    /\ outcome = "feed_raised"
    /\ pc = "done"
    /\ Len(feed) = 2
    /\ Len(frames) = 3
    /\ frames[3].message = "Max turns (10) exceeded"

\* The last event pulled ended the stream: encoding its record raised.
EventEndedStream == outcome = "json_dumps_raised" /\ result = NoResult

\* C5: a failure local to one event (its projector raising, its record not
\* encodable) is isolated: the event is skipped or replaced and the stream
\* goes on; it never ends the stream with an error frame.
C5_EventFailureIsolated ==
    \A k \in 1..Len(feed) :
        ~Deliverable(feed[k]) =>
            /\ ~EventEndedStream
            /\ \A i \in 1..Len(frames) : frames[i].type = "error" => outcome # "json_dumps_raised"

\* C6 as stated: a raising runtime call gives success=false,
\* final_output=null and a non-empty error text, with status 200.
C6_Original ==
    outcome = "run_raised" =>
        /\ httpStatus = 200
        /\ runResponse.success = "false"
        /\ runResponse.final_output = Null
        /\ runResponse.error \notin {Null, Missing, ""}

\* C6: when Runner.run raises an Exception, run_agent returns, with status
\* 200, success=false, final_output=null, no usage, no response id, and
\* error = str(e), which is the empty text for an exception without message.
C6_RunFailureShape ==
    outcome = "run_raised" =>
        /\ pc = "run_done"
        /\ httpStatus = 200
        /\ runResponse.success = "false"
        /\ runResponse.final_output = Null
        /\ runResponse.error = error
        /\ runResponse.error \in ExcMsgs
        /\ runResponse.usage = NullUsage
        /\ runResponse.response_id = Null

C6_Witness ==
    /\ outcome = "run_raised"
    /\ runResponse.success = "false"
    /\ runResponse.error = "Max turns (10) exceeded"

\* C7 as stated: a failure of the streaming call before any byte of the body
\* is an HTTP error status, not a 200 response with an error frame.
C7_Original ==
    outcome = "run_streamed_raised" =>
        /\ httpStatus >= 400
        /\ \A i \in 1..Len(frames) : frames[i].type # "error"

\* C7: Runner.run_streamed is called inside the body generator, after the
\* status line: its failure is a 200 response whose only frame is the error
\* frame with the exception's message.
C7_StartFailureInBand ==
    outcome = "run_streamed_raised" =>
        /\ httpStatus = 200
        /\ feed = <<>>
        /\ Len(frames) = 1
        /\ frames[1].type = "error"
        /\ frames[1].message = error
        /\ pc \in {"yield_error", "done", "closed"}

C7_Witness ==
    /\ outcome = "run_streamed_raised"
    /\ pc = "done"
    /\ Len(frames) = 1

\* C8: when the feed ends normally the terminal frame is stream_complete
\* and carries the run's final output, its turn count, its usage counters
\* and its upstream response id (each of the last two when the run has one).
C8_CompletionCarriesRunData ==
    outcome = "feed_ended" =>
        LET f == frames[Len(frames)] IN
        /\ f.type = "stream_complete"
        /\ f.final_output = result.final_output
        /\ f.current_turn = result.current_turn
        /\ _extract_response_id(result) # Null =>
              /\ "response_id" \in DOMAIN f
              /\ f.response_id = _extract_response_id(result)
        /\ _extract_usage_info(result) # NullUsage =>
              f.usage = _extract_usage_info(result)

\* C9: an event of none of the three classes, anywhere in the feed, has
\* exactly one frame, an unknown_event with its event_class and data; it
\* does not end the stream, and every deliverable event pulled after it has
\* its frame, later in the frames and in feed order.
C9_UnknownEventFramed ==
    \A k \in 1..Len(feed) :
        feed[k].cat = "other" =>
            /\ Cardinality(FramesOf(k)) = 1
            /\ \A i \in FramesOf(k) :
                  /\ frames[i].type = "unknown_event"
                  /\ DOMAIN frames[i] = {"type", "event_class", "data"}
                  /\ frames[i].event_class = feed[k].cls
                  /\ frames[i].data = IF feed[k].truthy THEN feed[k].repr ELSE Null
                  /\ \A j \in (k + 1)..Len(feed) :
                        Deliverable(feed[j]) =>
                            \E i2 \in (i + 1)..Len(frames) :
                                /\ origin[i2] = j
                                /\ frames[i2] = _format_stream_event(feed[j])
            /\ k = Len(feed) => ~EventEndedStream

C9_Witness ==
    /\ Len(feed) = 3
    /\ feed[2].cat = "other"
    /\ feed[3].cat = "raw_response"
    /\ Len(frames) >= 2
    /\ origin[Len(frames) - 1] = 2
    /\ origin[Len(frames)] = 3

\* The output field that carries attribute a of a run-item event named n.
RunItemField(n, a) ==
    CASE a = "type" -> "item_type"
      [] a = "id" -> IF n = "message_output_created" THEN "message_id" ELSE "call_id"
      [] a = "name" -> "tool_name"
      [] a = "arguments" -> "tool_arguments"
      [] a = "target_agent_name" -> "target_agent"
      [] a = "previous_agent_name" -> "previous_agent"
      [] a = "content" -> "reasoning_content"
      [] OTHER -> a

\* The fixed value the projectors put for an attribute that is not there.
DefaultOf(a) ==
    CASE a \in {"delta", "text"} -> ""
      [] a \in {"content_index", "output_index"} -> "0"
      [] a = "tools" -> "[]"
      [] OTHER -> Null

\* The optional attributes the projector of pEvent reads that pEvent lacks,
\* each with the output field that carries it.
MissingReads ==
    IF pEvent.cat = "raw_response" /\ pEvent.data.type # Missing THEN
        { <<a, a>> : a \in { b \in RawReads(pEvent.data.type) \cup {"sequence_number"} :
                              pEvent.data[b] = Missing } }
        \cup (IF pEvent.data.type \in LifecycleTypes /\ pEvent.data.response.kind = "missing"
              THEN {<<"response", "response_id">>, <<"response", "status">>} ELSE {})
        \cup (IF pEvent.data.type \in OutputItemTypes /\ pEvent.data.item.kind = "missing"
              THEN {<<"item", "item_type">>} ELSE {})
    ELSE IF pEvent.cat = "raw_response" THEN
        { <<a, a>> : a \in { b \in {"sequence_number"} : pEvent.data[b] = Missing } }
    ELSE IF pEvent.cat = "run_item" THEN
        { <<a, RunItemField(pEvent.name, a)>> :
            a \in { b \in RunItemReads(pEvent.name) \cup {"type"} : pEvent.item[b] = Missing } }
    ELSE {}

\* An exception of the projector that comes from an attribute that is there:
\* a response or item that is no dict.
RaisedOnPresent ==
    /\ pEvent.cat = "raw_response"
    /\ pEvent.data.type # Missing
    /\ \/ pEvent.data.type \in LifecycleTypes /\ pEvent.data.response.kind \in {"object", "none"}
       \/ pEvent.data.type \in OutputItemTypes /\ pEvent.data.item.kind \in {"object", "none"}

\* C10 as stated: an event lacking an optional attribute its projector reads
\* still has a record, where the field of that attribute is absent or null.
C10_Original ==
    pOut # NotProjected =>
        /\ pOut = None => RaisedOnPresent
        /\ pOut # None =>
              \A m \in MissingReads : m[2] \notin DOMAIN pOut \/ pOut[m[2]] = Null

\* C10: an event of any class lacking an optional attribute its projector
\* reads still has a record (no exception comes from the missing attribute,
\* only from a response or item that is there and is no dict), where the
\* field of that attribute is the projector's fixed default: null, or "" for
\* delta and text, 0 for content_index and output_index, [] for tools; a
\* raw event without type has event_type "unknown" and the base fields only.
C10_MissingAttributeDefaulted ==
    pOut # NotProjected =>
        /\ pOut = None => RaisedOnPresent
        /\ pOut # None =>
              /\ \A m \in MissingReads : m[2] \in DOMAIN pOut /\ pOut[m[2]] = DefaultOf(m[1])
              /\ (pEvent.cat = "raw_response" /\ pEvent.data.type = Missing) =>
                    /\ pOut.event_type = "unknown"
                    /\ DOMAIN pOut = {"type", "event_type", "sequence_number"}

C10_Witness ==
    /\ pEvent.cat = "raw_response"
    /\ pEvent.data.type = "response.output_text.delta"
    /\ pEvent.data.delta = Missing
    /\ pEvent.data.item_id = Missing
    /\ pOut # NotProjected
    /\ pOut.delta = ""
    /\ pOut.item_id = Null

\* The textual summary fields of a run-item record, with the attribute of
\* the item each comes from.
SummaryFields ==
    { <<"arguments", "tool_arguments">>, <<"output", "output">>,
      <<"content", "reasoning_content">> }

\* C11: a textual summary field (tool_arguments, output, reasoning_content)
\* within the display budget is emitted unchanged, and one beyond it is
\* emitted cut to the budget plus an ellipsis marker: whatever the budget
\* between 100 and 200 characters, a text of up to 100 comes out as it is
\* and a text of more than 200 does not.
C11_TextFieldsTruncated ==
    (pOut # NotProjected /\ pEvent.cat = "run_item" /\ pOut # None) =>
        \A m \in SummaryFields :
            (m[2] \in DOMAIN pOut /\ pEvent.item[m[1]] # Missing) =>
                LET v == pEvent.item[m[1]] IN
                /\ Len(v) <= 100 => pOut[m[2]] = v
                /\ Len(v) > 200 => (pOut[m[2]] # v /\ Len(pOut[m[2]]) < Len(v) + 3)

\* C12: once the client has closed the connection the generator pulls no
\* further event and yields no further frame, and the run is released: it
\* is not left running.
C12_DisconnectReleasesRun ==
    pc = "closed" => runTask # "running"

\* C13: consumption is strictly sequential: an event is asked of the feed
\* only by the waiting loop, one at a time, once every frame yielded has been
\* written out and every earlier event has its frame; never is more than one
\* frame waiting to be written.
C13_StrictlySequential ==
    /\ [](/\ Len(frames) <= sent + 1
          /\ \A k \in 1..Len(feed) : Deliverable(feed[k]) => FramesOf(k) # {})
    /\ [][Len(feed') # Len(feed) =>
            /\ pc = "await_event"
            /\ Len(feed') = Len(feed) + 1
            /\ sent = Len(frames)
            /\ Len(frames') <= Len(frames) + 1]_vars

C13_Witness ==
    /\ pc = "yield_event"
    /\ Len(feed) = 2
    /\ Len(frames) = 2
    /\ sent = 1

\* C14: info() is a pure read of the bound agent: the instruction text when
\* the instructions are a text, null when the agent has none and the literal
\* "Dynamic instructions (function-based)" when they are a function; the
\* model as a string, or null when the agent has no model; the counts and
\* the three endpoint paths; and it changes nothing but its own response.
InfoText(a, r) ==
    /\ a.instructions.kind = "str" => infoResponse.instructions = a.instructions.text
    /\ a.instructions.kind = "none" => infoResponse.instructions = Null
    /\ a.instructions.kind = "callable" =>
            infoResponse.instructions = "Dynamic instructions (function-based)"

InfoRest(a, r) ==
    /\ infoResponse.status = "200"
    /\ infoResponse.name = r.agent_name
    /\ infoResponse.agent_name = a.name
    /\ infoResponse.tools_count = NumText(Len(a.tools))
    /\ infoResponse.handoffs_count = NumText(Len(a.handoffs))
    /\ infoResponse.endpoints =
            [run |-> r.prefix \o "/run", stream |-> r.prefix \o "/stream",
             info |-> r.prefix \o "/info"]

InfoPure ==
    UNCHANGED <<httpStatus, frames, origin, feed, outcome, error, result,
                runResponse, sent, runTask, agent, route, reqs, pEvent, pOut>>

C14_InfoReadsAgent ==
    /\ [](infoResponse # NoInfo =>
            /\ InfoText(agent, route)
            /\ InfoRest(agent, route)
            /\ agent.model \in {Null, ""} => infoResponse.model = Null
            /\ agent.model \notin {Null, "", Obj} => infoResponse.model = agent.model
            /\ agent.model = Obj => infoResponse.model \notin {Null, Obj})
    /\ [][infoResponse' # infoResponse => InfoPure]_vars

C14_Witness ==
    /\ infoResponse # NoInfo
    /\ agent.instructions = StaticInstructions("You are helpful")
    /\ agent.model = "gpt-4.1-mini"
    /\ Len(agent.tools) = 2
    /\ Len(agent.handoffs) = 0
    /\ infoResponse.endpoints.stream = "/assistant/stream"

\* C14 as stated: the literal whenever the instructions are not a text, and
\* the model always a string.
C14_Original ==
    infoResponse # NoInfo =>
        /\ InfoRest(agent, route)
        /\ agent.instructions.kind = "str" =>
                infoResponse.instructions = agent.instructions.text
        /\ agent.instructions.kind # "str" =>
                infoResponse.instructions = "Dynamic instructions (function-based)"
        /\ infoResponse.model # Null

\* C15: each text-delta event pulled has exactly one frame, a raw_response
\* with that event's delta, content_index, item_id and output_index; the
\* frames of text deltas follow the feed's order; and when the feed ends and
\* the completion is encoded, the one terminal frame is the last and its
\* final_output is the run's final output.
IsTextDelta(event) ==
    event.cat = "raw_response" /\ event.data.type = "response.output_text.delta"

DeltaFields == {"delta", "content_index", "item_id", "output_index"}

SummaryTable(n) ==
    CASE n = "message_output_created" ->
            {<<"role", "role">>, <<"status", "status">>, <<"id", "message_id">>}
      [] n = "tool_called" ->
            {<<"name", "tool_name">>, <<"arguments", "tool_arguments">>, <<"id", "call_id">>}
      [] n = "tool_output" ->
            {<<"name", "tool_name">>, <<"output", "output">>, <<"id", "call_id">>}
      [] n = "handoff_requested" ->
            {<<"target_agent_name", "target_agent">>, <<"reason", "reason">>}
      [] n = "handoff_occured" ->
            {<<"target_agent_name", "target_agent">>,
             <<"previous_agent_name", "previous_agent">>}
      [] n = "reasoning_item_created" -> {<<"content", "reasoning_content">>}
      [] n = "mcp_approval_requested" ->
            {<<"tool_name", "tool_name">>, <<"server_name", "server_name">>}
      [] n = "mcp_list_tools" -> {<<"server_name", "server_name">>, <<"tools", "tools">>}
      [] OTHER -> {}

\* rec is the run_item record of event according to the table.
RunItemRecord(event, rec) ==
    /\ rec # None
    /\ rec.type = "run_item"
    /\ rec.name = event.name
    /\ DOMAIN rec = {"type", "name", "item_type"}
                        \cup { m[2] : m \in SummaryTable(event.name) }
    /\ event.item["type"] # Missing => rec.item_type = event.item["type"]
    /\ \A m \in SummaryTable(event.name) :
          event.item[m[1]] # Missing => rec[m[2]] = event.item[m[1]]

\* C16: every run-item event pulled has exactly one frame, the run_item
\* record with name, item_type and exactly the variant fields of its name
\* in the summarizer table, holding the values of the event's item.
C16_RunItemFramedPerTable ==
    \A k \in 1..Len(feed) :
        feed[k].cat = "run_item" =>
            /\ Cardinality(FramesOf(k)) = 1
            /\ \A i \in FramesOf(k) : RunItemRecord(feed[k], frames[i])

\* The table itself, on the projection alone.
RunItemProjectedPerTable ==
    (pOut # NotProjected /\ pEvent.cat = "run_item") => RunItemRecord(pEvent, pOut)

\* What a request receives when it is the only one: the frames its own
\* feed and ending give, the response its own run gives.
RECURSIVE AloneEvents(_)
AloneEvents(fd) ==
    IF fd = <<>> THEN <<>>
    ELSE LET rec == _format_stream_event(Head(fd)) IN
         IF rec = None THEN AloneEvents(Tail(fd))
         ELSE IF json_dumps_raises(rec) THEN <<error_event(TypeErrorMsg)>>
         ELSE <<rec>> \o AloneEvents(Tail(fd))

AloneFrames(q) ==
    CASE q.ending.kind = "feed_ended" ->
            AloneEvents(q.feed) \o
                <<IF q.ending.res.final_output = Obj THEN error_event(TypeErrorMsg)
                  ELSE completion_event(q.ending.res)>>
      [] q.ending.kind \in {"feed_raised", "run_streamed_raised"} ->
            AloneEvents(q.feed) \o <<error_event(q.ending.msg)>>
      [] OTHER -> AloneEvents(q.feed)

AloneResponse(q) ==
    CASE q.ending.kind = "run_returned" -> success_response(q.ending.res)
      [] q.ending.kind = "run_raised" -> failure_response(q.ending.msg)
      [] OTHER -> NoResponse

\* C17: with several requests in flight on one router, in any interleaving,
\* each receives the frames and the response its own feed and run determine,
\* as if it were alone; a step of one request (a failure included) changes
\* nothing of another, and nothing changes the agent or the route.
C17_RequestsDoNotInterfere ==
    /\ [](\A r \in Requests :
            /\ reqs[r].frames = AloneFrames(reqs[r])
            /\ reqs[r].response = AloneResponse(reqs[r])
            /\ reqs[r].info \in {NoInfo, AgentInfo(ChatAgent, Route("/chat", "Chat Agent"))})
    /\ [][/\ agent' = agent
          /\ route' = route
          /\ \A r, q \in Requests :
                (r # q /\ reqs'[r] # reqs[r]) => reqs'[q] = reqs[q]]_vars

C17_Witness ==
    /\ reqs[1].ending.kind = "feed_raised"
    /\ reqs[1].frames = <<error_event("Max turns (10) exceeded")>>
    /\ reqs[2].ending.kind = "feed_ended"
    /\ Len(reqs[2].feed) = 1
    /\ Len(reqs[2].frames) = 2
    /\ reqs[2].frames[1].type = "raw_response"
    /\ reqs[2].frames[2].type = "stream_complete"

\* C18: a response.created or response.completed event that carries a
\* response has a raw_response record with event_type, sequence_number and
\* the response's id and status; it is never dropped.
C18_LifecycleEventFramed ==
    (/\ pOut # NotProjected
     /\ pEvent.cat = "raw_response"
     /\ pEvent.data.type \in LifecycleTypes
     /\ pEvent.data.response.kind \in {"dict", "object"}) =>
        /\ pOut # None
        /\ pOut.type = "raw_response"
        /\ pOut.event_type = pEvent.data.type
        /\ "sequence_number" \in DOMAIN pOut
        /\ pOut.response_id = pEvent.data.response.id
        /\ pOut.status = pEvent.data.response.status

\* The sub-kinds _format_raw_response_event has a branch for.
ListedTypes ==
    {"response.output_text.delta", "response.reasoning_summary_text.delta",
     "response.refusal.delta", "response.function_call_arguments.delta",
     "response.output_text.done"}
        \cup LifecycleTypes \cup ContentPartTypes \cup OutputItemTypes

\* C19: a raw-response event whose sub-kind is none of the listed ones has a
\* raw_response record of exactly type, event_type and sequence_number; it
\* is neither dropped nor an error.
C19_UnlistedSubKindBaseOnly ==
    (/\ pOut # NotProjected
     /\ pEvent.cat = "raw_response"
     /\ pEvent.data.type \notin ListedTypes \cup {Missing}) =>
        /\ pOut \notin {None, Raised}
        /\ DOMAIN pOut = {"type", "event_type", "sequence_number"}
        /\ pOut.type = "raw_response"
        /\ pOut.event_type = pEvent.data.type
        /\ pOut.sequence_number = getattr(pEvent.data, "sequence_number", Null)

C19_Witness ==
    /\ pEvent.cat = "raw_response"
    /\ pEvent.data.type = "response.in_progress"
    /\ pEvent.data.sequence_number = "7"
    /\ pOut # NotProjected
    /\ pOut.sequence_number = "7"

\* C20: an agent-updated event has an agent_updated record with the new
\* agent's name, model (as text; null when it has none) and tool and handoff
\* counts, where agent_instructions is the instruction text when the new
\* agent's instructions are a text and "Dynamic instructions" otherwise.
C20_AgentUpdatedFramed ==
    (pOut # NotProjected /\ pEvent.cat = "agent_updated") =>
        LET a == pEvent.new_agent IN
        /\ pOut # None
        /\ DOMAIN pOut = {"type", "agent_name", "agent_instructions", "model",
                          "tools_count", "handoffs_count"}
        /\ pOut.type = "agent_updated"
        /\ pOut.agent_name = a.name
        /\ a.model \in {Null, ""} => pOut.model = Null
        /\ a.model \notin {Null, "", Obj} => pOut.model = a.model
        /\ a.model = Obj => pOut.model \notin {Null, Obj}
        /\ pOut.tools_count = NumText(Len(a.tools))
        /\ pOut.handoffs_count = NumText(Len(a.handoffs))
        /\ a.instructions.kind = "str" => pOut.agent_instructions = a.instructions.text
        /\ a.instructions.kind # "str" => pOut.agent_instructions = "Dynamic instructions"

C20_Witness ==
    /\ pEvent.cat = "agent_updated"
    /\ pEvent.new_agent.instructions = NoInstructions
    /\ pEvent.new_agent.model = "gpt-4.1-mini"
    /\ Len(pEvent.new_agent.tools) = 2
    /\ pOut # NotProjected
    /\ pOut.agent_instructions = "Dynamic instructions"

\* C21: on the sync path, when reading the usage counters or the response
\* id of the result the runtime returned raises, run still returns
\* success=true with the runtime's final_output and no error; the field that
\* could not be read is null, and the other one is still extracted.
C21_ExtractionFailureIsolated ==
    (/\ pc = "run_done"
     /\ result # NoResult
     /\ usage_read_raises(result) \/ response_id_read_raises(result)) =>
        /\ runResponse.success = "true"
        /\ runResponse.final_output = result.final_output
        /\ runResponse.error = Null
        /\ result.final_output # Obj => httpStatus = 200
        /\ usage_read_raises(result) => runResponse.usage = NullUsage
        /\ response_id_read_raises(result) => runResponse.response_id = Null
        /\ (~usage_read_raises(result) /\ result.context_wrapper = CwUsage) =>
                runResponse.usage = SomeUsage

C21_Witness ==
    /\ pc = "run_done"
    /\ result = Result("Hello!", TRUE, CwUsage, RrMissing)
    /\ runResponse.success = "true"
    /\ runResponse.final_output = "Hello!"
    /\ runResponse.usage = SomeUsage
    /\ runResponse.response_id = Null

====
